---- MODULE Spec2Model ----
(***************************************************************************)
(* Model of the ESG calculation engine (src/src/services/esgCalculations.ts)*)
(* of esg.linkedtrust.                                                     *)
(*                                                                         *)
(* JavaScript numbers are modelled as exact rationals <<n, d>> (d > 0, in  *)
(* lowest terms); `undefined` is the empty tuple and `null` a one-element  *)
(* tuple, so that every optional field has one comparable shape.  The      *)
(* arithmetic is the real arithmetic the code writes down; IEEE rounding   *)
(* of the last bit is not modelled.                                        *)
(***************************************************************************)
EXTENDS Integers, Sequences, FiniteSets, TLC

VARIABLES
    claims,       \* the claim collection handed to the engine
    collection,   \* "array" when the collection is present, else "null" or "undefined"
    candidate,    \* argument of validateMetrics
    rng,          \* hidden state of Math.random()
    percentage,   \* argument of the score normalizer's pure functions
    score,        \* argument of calculateIndustryPercentile
    phase,        \* "input" before the call, "done" after it, "thrown" when it threw
    called,       \* which entry point has run
    result,       \* the value the call returned
    earlier,      \* the value an earlier call on the same collection returned
    diagnostics,  \* what validateMetrics wrote to console.warn
    hook,         \* the mounted data hook and whether it was given an identifier
    hookState,    \* the hook's useState cells: claims, loading, error, lastFetched
    fetches,      \* the fetches started so far, in order of their start
    poll          \* the polling effect: its interval and what its callback captured

engineVars == <<claims, collection, candidate, rng, percentage, score, phase, called, result, earlier, diagnostics>>

hookVars == <<hook, hookState, fetches, poll>>

vars == <<engineVars, hookVars>>

(***************************************************************************)
(* Bounds of the model.                                                    *)
(***************************************************************************)
MaxClaims == 2
MaxFetches == 2
MaxRatedClaims == 5
MaxValClaims == 2
MaxValidators == 1
MaxPopulation == 3

(***************************************************************************)
(* JavaScript values.                                                      *)
(***************************************************************************)
Undefined == <<>>
Null == <<"null">>
NoResult == <<>>

RECURSIVE GCD(_, _)
GCD(a, b) == IF b = 0 THEN a ELSE GCD(b, a % b)

Abs(n) == IF n < 0 THEN -n ELSE n

Rat(n, d) ==
    LET g == GCD(Abs(n), Abs(d))
        s == IF d < 0 THEN -1 ELSE 1
    IN  <<(s * n) \div g, (s * d) \div g>>

Num(n) == <<n, 1>>
IsNumber(v) == Len(v) = 2
RAdd(x, y) == Rat(x[1] * y[2] + y[1] * x[2], x[2] * y[2])
RSub(x, y) == Rat(x[1] * y[2] - y[1] * x[2], x[2] * y[2])
RMul(x, y) == Rat(x[1] * y[1], x[2] * y[2])
RDiv(x, y) == Rat(x[1] * y[2], x[2] * y[1])
RLt(x, y) == x[1] * y[2] < y[1] * x[2]
RLe(x, y) == x[1] * y[2] <= y[1] * x[2]
RAbs(x) == <<Abs(x[1]), x[2]>>
RMax(x, y) == IF RLt(x, y) THEN y ELSE x
RMin(x, y) == IF RLt(y, x) THEN y ELSE x
\* Math.round: the nearest integer, halves rounded towards +Infinity
MathRound(x) == (2 * x[1] + x[2]) \div (2 * x[2])
\* Math.floor
MathFloor(x) == x[1] \div x[2]

RECURSIVE RSum(_)
RSum(s) == IF s = <<>> THEN Num(0) ELSE RAdd(Head(s), RSum(Tail(s)))

RECURSIVE FlatMap(_)
FlatMap(ss) == IF ss = <<>> THEN <<>> ELSE Head(ss) \o FlatMap(Tail(ss))

\* x || dflt for a numeric field: undefined, null and 0 are falsy
OrElse(x, dflt) == IF IsNumber(x) /\ x[1] # 0 THEN x ELSE dflt
\* x > 0 as JavaScript evaluates it: undefined > 0 and null > 0 are false
Positive(x) == IsNumber(x) /\ x[1] > 0

(***************************************************************************)
(* Configuration tables of the engine.                                     *)
(***************************************************************************)
Pillars == {"environmental", "social", "governance"}

ESG_ASPECT_MAPPING ==
    [environmental |-> {"environmental", "climate", "sustainability", "carbon",
                        "energy", "renewable", "emissions", "green"},
     social        |-> {"social", "labor", "community", "diversity",
                        "human rights", "employee", "workplace", "safety"},
     governance    |-> {"governance", "leadership", "transparency", "ethics",
                        "compliance", "board", "audit", "risk"}]

ESG_WEIGHTS ==
    [environmental |-> Rat(4, 10), social |-> Rat(3, 10), governance |-> Rat(3, 10)]

STAR_RATING_THRESHOLDS ==
    << [min |-> Num(90), max |-> Num(100), stars |-> 5],
       [min |-> Num(75), max |-> Num(89),  stars |-> 4],
       [min |-> Num(60), max |-> Num(74),  stars |-> 3],
       [min |-> Num(40), max |-> Num(59),  stars |-> 2],
       [min |-> Num(0),  max |-> Num(39),  stars |-> 1] >>

\* GRADE_MAPPING[stars] || 'F'
GRADE_MAPPING(stars) ==
    CASE stars = 5 -> "A+"
      [] stars = 4 -> "A"
      [] stars = 3 -> "B"
      [] stars = 2 -> "C"
      [] stars = 1 -> "D"
      [] OTHER     -> "F"

(***************************************************************************)
(* Aspect labels.  A label is the concatenation of a sequence of text      *)
(* fragments (words, parts of words, separators); toLowerCase maps each    *)
(* fragment, and includes(keyword) holds when the keyword's fragments      *)
(* occur contiguously in the lower-cased label.                            *)
(***************************************************************************)
ToLowerCase(w) ==
    CASE w = "Climate" -> "climate"
      [] w = "ESG"     -> "esg"
      [] w = "Overall" -> "overall"
      [] w = "Board"   -> "board"
      [] w = "Human"   -> "human"
      [] w = "Rights"  -> "rights"
      [] w = "On"      -> "on"
      [] OTHER         -> w

KeywordFragments(keyword) ==
    IF keyword = "human rights" THEN <<"human", " ", "rights">> ELSE <<keyword>>

\* faulty variant: the label is not lower-cased before the search
Includes_caseSensitive(aspect, keyword) ==
    LET fragments == KeywordFragments(keyword)
    IN  \E i \in 1..(Len(aspect) - Len(fragments) + 1) :
            SubSeq(aspect, i, i + Len(fragments) - 1) = fragments

Includes(aspect, keyword) ==
    LET fragments == KeywordFragments(keyword)
        lower == [i \in 1..Len(aspect) |-> ToLowerCase(aspect[i])]
    IN  \E i \in 1..(Len(aspect) - Len(fragments) + 1) :
            SubSeq(lower, i, i + Len(fragments) - 1) = fragments

\* the current time, new Date(), in units of one half-life of the decay
\* (180 * ln 2 days), so that exp(-daysDiff / 180) is an exact power of 1/2
Now == 1

(***************************************************************************)
(* Weighted Aggregator.                                                    *)
(***************************************************************************)
\* Math.exp(-daysDiff / 180) with daysDiff = (Now - createdAt) half-lives
calculateRecencyWeight(createdAt) == Rat(1, 2 ^ (Now - createdAt))

isValidClaim(claim) ==
    /\ claim.score # Undefined
    /\ claim.score # Null
    /\ claim.confidence # Undefined
    /\ Positive(claim.confidence)

claimWeight(claim) ==
    RMul(OrElse(claim.confidence, Rat(1, 2)), calculateRecencyWeight(claim.createdAt))

weightedClaimScore(claim) == RMul(OrElse(claim.score, Num(0)), claimWeight(claim))

\* faulty variant: the plain mean of the scores
calculateWeightedScore_unweighted(cs) ==
    IF Len(cs) = 0 THEN Num(0)
    ELSE RDiv(RSum([i \in 1..Len(cs) |-> OrElse(cs[i].score, Num(0))]), Num(Len(cs)))

calculateWeightedScore(cs) ==
    IF Len(cs) = 0 THEN Num(0)
    ELSE LET totalWeightedScore == RSum([i \in 1..Len(cs) |-> weightedClaimScore(cs[i])])
             totalWeight == RSum([i \in 1..Len(cs) |-> claimWeight(cs[i])])
         IN  IF totalWeight[1] > 0 THEN RDiv(totalWeightedScore, totalWeight)
             ELSE Num(0)

recencyWeightOf(claim) == calculateRecencyWeight(claim.createdAt)

weightedClaimConfidence(claim) ==
    RMul(OrElse(claim.confidence, Rat(1, 2)), calculateRecencyWeight(claim.createdAt))

\* faulty variant: each claim weighted by confidence * recency
calculateWeightedConfidence_confidenceWeighted(cs) ==
    IF Len(cs) = 0 THEN Num(0)
    ELSE RDiv(RSum([i \in 1..Len(cs) |->
                       RMul(OrElse(cs[i].confidence, Rat(1, 2)), claimWeight(cs[i]))]),
              RSum([i \in 1..Len(cs) |-> claimWeight(cs[i])]))

\* faulty variant: the weighted sum is not divided by the total weight
calculateWeightedConfidence_unnormalised(cs) ==
    IF Len(cs) = 0 THEN Num(0) ELSE RSum([i \in 1..Len(cs) |-> weightedClaimConfidence(cs[i])])

calculateWeightedConfidence(cs) ==
    IF Len(cs) = 0 THEN Num(0)
    ELSE LET totalWeightedConfidence == RSum([i \in 1..Len(cs) |-> weightedClaimConfidence(cs[i])])
             totalWeight == RSum([i \in 1..Len(cs) |-> recencyWeightOf(cs[i])])
         IN  IF totalWeight[1] > 0 THEN RDiv(totalWeightedConfidence, totalWeight)
             ELSE Num(0)

(***************************************************************************)
(* Pillar Classifier.                                                      *)
(***************************************************************************)
isClaimInPillar(claim, pillar) ==
    IF claim.aspect = <<>> THEN FALSE
    ELSE \E keyword \in ESG_ASPECT_MAPPING[pillar] : Includes(claim.aspect, keyword)

isOverallClaim(claim) ==
    /\ claim.aspect # Undefined
    /\ (Includes(claim.aspect, "esg") \/ Includes(claim.aspect, "overall"))

\* faulty variant: the general/overall claims always contribute to the pillar
calculatePillarScore_alwaysOverall(cs, pillar) ==
    calculateWeightedScore(
        SelectSeq(cs, LAMBDA c : isClaimInPillar(c, pillar) \/ isOverallClaim(c)))

\* faulty variant: a pillar without matching claims falls back to every valid claim
calculatePillarScore_fallbackAll(cs, pillar) ==
    LET pillarClaims == SelectSeq(cs, LAMBDA c : isClaimInPillar(c, pillar))
    IN  IF Len(pillarClaims) = 0 THEN calculateWeightedScore(cs)
        ELSE calculateWeightedScore(pillarClaims)

calculatePillarScore(cs, pillar) ==
    LET pillarClaims == SelectSeq(cs, LAMBDA c : isClaimInPillar(c, pillar))
        overallClaims == SelectSeq(cs, isOverallClaim)
    IN  IF Len(pillarClaims) = 0
        THEN IF Len(overallClaims) = 0 THEN Num(0)
             ELSE calculateWeightedScore(overallClaims)
        ELSE calculateWeightedScore(pillarClaims)

(***************************************************************************)
(* Score Normalizer.                                                       *)
(***************************************************************************)
\* faulty variant: the result is not clamped
normalizeScoreToPercentage_unclamped(s) == RMul(RDiv(RAdd(s, Num(1)), Num(2)), Num(100))

normalizeScoreToPercentage(s) ==
    RMax(Num(0), RMin(Num(100), RMul(RDiv(RAdd(s, Num(1)), Num(2)), Num(100))))

inStarBand(p, threshold) == RLe(threshold.min, p) /\ RLe(p, threshold.max)

RECURSIVE starsFrom(_, _)
starsFrom(p, i) ==
    IF i > Len(STAR_RATING_THRESHOLDS) THEN 1
    ELSE IF inStarBand(p, STAR_RATING_THRESHOLDS[i])
         THEN STAR_RATING_THRESHOLDS[i].stars
         ELSE starsFrom(p, i + 1)

convertPercentageToStars(p) == starsFrom(p, 1)

\* the grade scale validateGradeConsistency expects: 12 steps from A+ down to F
expectedGrade(p) ==
    CASE RLe(Num(95), p) -> "A+"
      [] RLe(Num(90), p) /\ RLt(p, Num(95)) -> "A"
      [] RLe(Num(85), p) /\ RLt(p, Num(90)) -> "A-"
      [] RLe(Num(80), p) /\ RLt(p, Num(85)) -> "B+"
      [] RLe(Num(75), p) /\ RLt(p, Num(80)) -> "B"
      [] RLe(Num(70), p) /\ RLt(p, Num(75)) -> "B-"
      [] RLe(Num(65), p) /\ RLt(p, Num(70)) -> "C+"
      [] RLe(Num(60), p) /\ RLt(p, Num(65)) -> "C"
      [] RLe(Num(55), p) /\ RLt(p, Num(60)) -> "C-"
      [] RLe(Num(50), p) /\ RLt(p, Num(55)) -> "D+"
      [] RLe(Num(45), p) /\ RLt(p, Num(50)) -> "D"
      [] RLe(Num(40), p) /\ RLt(p, Num(45)) -> "D-"
      [] OTHER -> "F"

(***************************************************************************)
(* Percentile Ranker.                                                      *)
(***************************************************************************)
hasScore(claim) == claim.score # Undefined /\ claim.score # Null

claimScore(claim) == claim.score

\* faulty variant: scores equal to the given score counted as below it
calculateIndustryPercentile_tiesBelow(s, allClaims) ==
    LET scored == SelectSeq(allClaims, hasScore)
        scores == [i \in 1..Len(scored) |-> claimScore(scored[i])]
        belowScore == Len(SelectSeq(scores, LAMBDA x : RLe(x, s)))
    IN  IF Len(scores) = 0 THEN 50
        ELSE MathRound(RMul(Rat(belowScore, Len(scores)), Num(100)))

calculateIndustryPercentile(s, allClaims) ==
    LET scored == SelectSeq(allClaims, hasScore)
        scores == [i \in 1..Len(scored) |-> claimScore(scored[i])]
        belowScore == Len(SelectSeq(scores, LAMBDA x : RLt(x, s)))
    IN  IF Len(scores) = 0 THEN 50
        ELSE MathRound(RMul(Rat(belowScore, Len(scores)), Num(100)))

(***************************************************************************)
(* Math.random(): a generator with hidden state.  The k-th draw of a call  *)
(* entered in state r is RandomAt(r + k); the call leaves the generator    *)
(* advanced by the number of draws it made.                                *)
(***************************************************************************)
RngPeriod == 2

RandomAt(n) == Rat(n % RngPeriod, RngPeriod)

(***************************************************************************)
(* Validation Aggregator.                                                  *)
(***************************************************************************)
validatorRating(validator) == validator.rating

hasOwnRating(claim) ==
    claim.stars # Undefined /\ claim.stars # Null /\ Positive(claim.stars)

hasRating(validator) ==
    validator.rating # Undefined /\ validator.rating # Null /\ Positive(validator.rating)

ratingsOfValidators(vs) == [i \in 1..Len(vs) |-> validatorRating(vs[i])]

ratingsOfClaim(claim) ==
    (IF hasOwnRating(claim) THEN <<claim.stars>> ELSE <<>>)
        \o ratingsOfValidators(SelectSeq(claim.validators, hasRating))

collectRatings(cs) == FlatMap([i \in 1..Len(cs) |-> ratingsOfClaim(cs[i])])

isEndorsement(rating) == RLe(Num(4), rating)
\* faulty variant: a rating of 3 counted as a rejection
isRejection_upToThree(rating) == RLe(rating, Num(3))

isRejection(rating) == RLe(rating, Num(2))

claimValidators(claim) == claim.validators
isVerified(validator) == validator.verified

claimHistoryEntry(claim) ==
    [id |-> <<"claim", claim.id>>, rating |-> claim.stars, verified |-> TRUE,
     timestamp |-> claim.createdAt]

validatorHistoryEntry(claim, index) ==
    [id |-> <<"validator", claim.id, index - 1>>,
     rating |-> claim.validators[index].rating,
     verified |-> claim.validators[index].verified,
     timestamp |-> claim.createdAt]

historyOfClaim(claim) ==
    (IF Positive(claim.stars) THEN <<claimHistoryEntry(claim)>> ELSE <<>>)
        \o [i \in 1..Len(claim.validators) |-> validatorHistoryEntry(claim, i)]

\* yearsExperience: Math.floor(Math.random() * 10) + 5 for a claim's own entry,
\* Math.floor(Math.random() * 15) + 3 for a validator's
withExperience(entry, draw) ==
    [id |-> entry.id, rating |-> entry.rating, verified |-> entry.verified,
     timestamp |-> entry.timestamp,
     yearsExperience |->
        IF entry.id[1] = "claim"
        THEN MathFloor(RMul(draw, Num(10))) + 5
        ELSE MathFloor(RMul(draw, Num(15))) + 3]

buildHistory(cs, r) ==
    LET entries == FlatMap([i \in 1..Len(cs) |-> historyOfClaim(cs[i])])
    IN  [i \in 1..Len(entries) |-> withExperience(entries[i], RandomAt(r + i - 1))]

\* Array.prototype.sort with (a, b) => b.timestamp - a.timestamp: stable, newest first
insertEntry(sorted, e) ==
    LET k == Len(SelectSeq(sorted, LAMBDA x : x.timestamp >= e.timestamp))
    IN  SubSeq(sorted, 1, k) \o <<e>> \o SubSeq(sorted, k + 1, Len(sorted))

RECURSIVE sortPrefix(_, _)
sortPrefix(h, n) == IF n = 0 THEN <<>> ELSE insertEntry(sortPrefix(h, n - 1), h[n])

\* faulty variant: the history stays in collection order
sortHistory_insertionOrder(h) == h

sortHistory(h) == sortPrefix(h, Len(h))

emptyValidationMetrics ==
    [totalValidations |-> 0, endorsements |-> 0, rejections |-> 0,
     averageRating |-> Num(0), endorsementRate |-> Num(0),
     consensusPercentage |-> Num(0), verifiedRate |-> Num(0),
     validationHistory |-> <<>>]

calculateVerifiedRate(cs) ==
    LET allValidators == FlatMap([i \in 1..Len(cs) |-> claimValidators(cs[i])])
        verifiedValidators == Len(SelectSeq(allValidators, isVerified))
    IN  IF Len(allValidators) > 0
        THEN RMul(Rat(verifiedValidators, Len(allValidators)), Num(100))
        ELSE Num(100)

\* faulty variant: strictly within one star of the average
isConsensus_strict(rating, averageRating) ==
    RLt(RAbs(RSub(rating, averageRating)), Num(1))

isConsensus(rating, averageRating) == RLe(RAbs(RSub(rating, averageRating)), Num(1))

\* lines 324-400: the statistics of a non-empty rating population
ratedMetrics(cs, r, allRatings, averageRating) ==
    LET totalValidations == Len(allRatings)
        endorsements == Len(SelectSeq(allRatings, isEndorsement))
        rejections == Len(SelectSeq(allRatings, isRejection))
        consensusCount == Len(SelectSeq(allRatings, LAMBDA x : isConsensus(x, averageRating)))
    IN  [totalValidations |-> totalValidations,
         endorsements |-> endorsements,
         rejections |-> rejections,
         averageRating |-> averageRating,
         endorsementRate |-> RMul(Rat(endorsements, totalValidations), Num(100)),
         consensusPercentage |-> RMul(Rat(consensusCount, totalValidations), Num(100)),
         verifiedRate |-> calculateVerifiedRate(cs),
         validationHistory |-> sortHistory(buildHistory(cs, r))]

metricsOfRatings(cs, r, allRatings) ==
    IF Len(allRatings) = 0 THEN emptyValidationMetrics
    ELSE ratedMetrics(cs, r, allRatings, RDiv(RSum(allRatings), Num(Len(allRatings))))

calculateValidationMetrics(cs, r) == metricsOfRatings(cs, r, collectRatings(cs))

\* the number of Math.random() calls calculateValidationMetrics makes
validationDraws(cs) ==
    IF Len(collectRatings(cs)) = 0 THEN 0 ELSE Len(FlatMap([i \in 1..Len(cs) |-> historyOfClaim(cs[i])]))

(***************************************************************************)
(* Metrics Validator.                                                      *)
(***************************************************************************)
outside(x, lo, hi) == RLt(x, Num(lo)) \/ RLt(Num(hi), x)

weightedPillarSum(m) ==
    RAdd(RAdd(RMul(m.environmentalScore, ESG_WEIGHTS.environmental),
              RMul(m.socialScore, ESG_WEIGHTS.social)),
         RMul(m.governanceScore, ESG_WEIGHTS.governance))

validationErrors(m) ==
    (IF outside(m.overallPercentage, 0, 100) THEN <<"overall percentage">> ELSE <<>>)
    \o (IF m.overallStars < 0 \/ m.overallStars > 5 THEN <<"overall stars">> ELSE <<>>)
    \o (IF outside(m.confidenceLevel, 0, 1) THEN <<"confidence level">> ELSE <<>>)
    \o (IF m.industryPercentile < 0 \/ m.industryPercentile > 100
        THEN <<"industry percentile">> ELSE <<>>)
    \o (IF outside(m.endorsementRate, 0, 100) THEN <<"endorsement rate">> ELSE <<>>)
    \o (IF outside(m.consensusPercentage, 0, 100)
        THEN <<"consensus percentage">> ELSE <<>>)
    \o (IF outside(m.environmentalScore, 0, 100)
        THEN <<"environmental score">> ELSE <<>>)
    \o (IF outside(m.socialScore, 0, 100) THEN <<"social score">> ELSE <<>>)
    \o (IF outside(m.governanceScore, 0, 100) THEN <<"governance score">> ELSE <<>>)
    \o (IF m.totalValidations < 0 THEN <<"total validations">> ELSE <<>>)
    \o (IF m.endorsements < 0 \/ m.endorsements > m.totalValidations
        THEN <<"endorsements count">> ELSE <<>>)
    \o (IF m.rejections < 0 \/ m.rejections > m.totalValidations
        THEN <<"rejections count">> ELSE <<>>)
    \o (IF outside(m.averageRating, 0, 5) THEN <<"average rating">> ELSE <<>>)
    \o (IF /\ m.totalValidations > 0
           /\ RLt(Rat(1, 10),
                  RAbs(RSub(m.endorsementRate,
                            RMul(Rat(m.endorsements, m.totalValidations), Num(100)))))
        THEN <<"endorsement rate mismatch">> ELSE <<>>)
    \o (IF RLt(Rat(1, 2), RAbs(RSub(m.overallPercentage, weightedPillarSum(m))))
        THEN <<"overall score mismatch">> ELSE <<>>)

validateMetrics(m) == Len(validationErrors(m)) = 0

(***************************************************************************)
(* calculateESGMetrics.                                                    *)
(***************************************************************************)
getDefaultMetrics ==
    [overallScore |-> Num(0), overallPercentage |-> Num(0), overallStars |-> 0,
     overallGrade |-> "N/A",
     environmentalScore |-> Num(0), socialScore |-> Num(0),
     governanceScore |-> Num(0),
     confidenceLevel |-> Num(0), industryPercentile |-> 50,
     totalValidations |-> 0, endorsements |-> 0, rejections |-> 0,
     averageRating |-> Num(0), endorsementRate |-> Num(0),
     consensusPercentage |-> Num(0), lastUpdated |-> Now]

\* faulty variant: the three pillars weighted equally
overallOf_equalWeights(environmentalScore, socialScore, governanceScore) ==
    RDiv(RAdd(RAdd(environmentalScore, socialScore), governanceScore), Num(3))

overallOf(environmentalScore, socialScore, governanceScore) ==
    RAdd(RAdd(RMul(environmentalScore, ESG_WEIGHTS.environmental),
              RMul(socialScore, ESG_WEIGHTS.social)),
         RMul(governanceScore, ESG_WEIGHTS.governance))

\* lines 135-147: the metrics object
metricsObject(overallScore, overallPercentage, overallStars, environmentalScore, socialScore, governanceScore, confidenceLevel, industryPercentile, validationMetrics) ==
    [overallScore |-> overallScore,
     overallPercentage |-> overallPercentage,
     overallStars |-> overallStars,
     overallGrade |-> GRADE_MAPPING(overallStars),
     environmentalScore |-> normalizeScoreToPercentage(environmentalScore),
     socialScore |-> normalizeScoreToPercentage(socialScore),
     governanceScore |-> normalizeScoreToPercentage(governanceScore),
     confidenceLevel |-> confidenceLevel,
     industryPercentile |-> industryPercentile,
     totalValidations |-> validationMetrics.totalValidations,
     endorsements |-> validationMetrics.endorsements,
     rejections |-> validationMetrics.rejections,
     averageRating |-> validationMetrics.averageRating,
     endorsementRate |-> validationMetrics.endorsementRate,
     consensusPercentage |-> validationMetrics.consensusPercentage,
     verifiedRate |-> validationMetrics.verifiedRate,
     validationHistory |-> validationMetrics.validationHistory,
     lastUpdated |-> Now]

\* lines 110-133
metricsOfPillars(cs, validClaims, r, environmentalScore, socialScore, governanceScore, overallScore, overallPercentage) ==
    metricsObject(overallScore, overallPercentage,
                  convertPercentageToStars(overallPercentage),
                  environmentalScore, socialScore, governanceScore,
                  calculateWeightedConfidence(validClaims),
                  calculateIndustryPercentile(overallScore, cs),
                  calculateValidationMetrics(cs, r))

overallMetrics(cs, validClaims, r, environmentalScore, socialScore, governanceScore, overallScore) ==
    metricsOfPillars(cs, validClaims, r, environmentalScore, socialScore,
                     governanceScore, overallScore,
                     normalizeScoreToPercentage(overallScore))

pillarMetrics(cs, validClaims, r, environmentalScore, socialScore, governanceScore) ==
    overallMetrics(cs, validClaims, r, environmentalScore, socialScore, governanceScore,
                   overallOf(environmentalScore, socialScore, governanceScore))

\* lines 105-147
composeMetrics(cs, validClaims, r) ==
    pillarMetrics(cs, validClaims, r,
                  calculatePillarScore(validClaims, "environmental"),
                  calculatePillarScore(validClaims, "social"),
                  calculatePillarScore(validClaims, "governance"))

\* faulty variant: metrics that fail validation are replaced by the defaults
returnMetrics_defaultOnFailure(metrics) ==
    IF validateMetrics(metrics) THEN metrics ELSE getDefaultMetrics

\* lines 149-160: a failed validation only warns, the metrics are returned as
\* they were composed
returnMetrics(metrics) == IF validateMetrics(metrics) THEN metrics ELSE metrics

\* lines 149-160: what the call returns and what validateMetrics writes to
\* console.warn about the composed metrics
validatedOutcome(metrics) ==
    [returned |-> returnMetrics(metrics), warnings |-> validationErrors(metrics)]

validClaimsOutcome(cs, validClaims, r) ==
    IF Len(validClaims) = 0 THEN [returned |-> getDefaultMetrics, warnings |-> <<>>]
    ELSE validatedOutcome(composeMetrics(cs, validClaims, r))

esgOutcome(cs, r) ==
    IF Len(cs) = 0 THEN [returned |-> getDefaultMetrics, warnings |-> <<>>]
    ELSE validClaimsOutcome(cs, SelectSeq(cs, isValidClaim), r)

calculateESGMetrics(cs, r) == esgOutcome(cs, r).returned

metricsDiagnostics(cs, r) == esgOutcome(cs, r).warnings

metricsDraws(cs) ==
    IF Len(SelectSeq(cs, isValidClaim)) = 0 THEN 0 ELSE validationDraws(cs)

(***************************************************************************)
(* Letter grades of the company details page and their consistency check.  *)
(***************************************************************************)
\* ((score + 1) / 2) * 100
scorePercentage(s) == RMul(RDiv(RAdd(s, Num(1)), Num(2)), Num(100))

calculateGrade(s) ==
    CASE RLe(Num(90), scorePercentage(s)) -> "A+"
      [] RLe(Num(85), scorePercentage(s)) /\ RLt(scorePercentage(s), Num(90)) -> "A"
      [] RLe(Num(80), scorePercentage(s)) /\ RLt(scorePercentage(s), Num(85)) -> "A-"
      [] RLe(Num(75), scorePercentage(s)) /\ RLt(scorePercentage(s), Num(80)) -> "B+"
      [] RLe(Num(70), scorePercentage(s)) /\ RLt(scorePercentage(s), Num(75)) -> "B"
      [] RLe(Num(65), scorePercentage(s)) /\ RLt(scorePercentage(s), Num(70)) -> "B-"
      [] RLe(Num(60), scorePercentage(s)) /\ RLt(scorePercentage(s), Num(65)) -> "C+"
      [] RLe(Num(55), scorePercentage(s)) /\ RLt(scorePercentage(s), Num(60)) -> "C"
      [] RLe(Num(50), scorePercentage(s)) /\ RLt(scorePercentage(s), Num(55)) -> "C-"
      [] RLe(Num(45), scorePercentage(s)) /\ RLt(scorePercentage(s), Num(50)) -> "D+"
      [] RLe(Num(40), scorePercentage(s)) /\ RLt(scorePercentage(s), Num(45)) -> "D"
      [] OTHER -> "D-"

validateGradeConsistency(s, grade) == grade = expectedGrade(scorePercentage(s))

(***************************************************************************)
(* getCalculationBreakdown.                                                *)
(***************************************************************************)
pillarBreakdownOf(validClaims, pillar) ==
    [claims |-> Len(SelectSeq(validClaims, LAMBDA c : isClaimInPillar(c, pillar))),
     averageScore |-> normalizeScoreToPercentage(calculatePillarScore(validClaims, pillar)),
     weightedContribution |-> RMul(normalizeScoreToPercentage(calculatePillarScore(validClaims, pillar)), ESG_WEIGHTS[pillar])]

ratingDistribution(allRatings) ==
    [i \in 1..5 |-> Len(SelectSeq(allRatings, LAMBDA rating : rating = Num(i)))]

validationBreakdownOf(cs) ==
    [totalRatings |-> Len(collectRatings(cs)),
     ratingDistribution |-> ratingDistribution(collectRatings(cs)),
     endorsementThreshold |-> 4,
     consensusThreshold |-> 1]

overallCalculationOf(weightedSum) ==
    [weightedSum |-> weightedSum,
     finalPercentage |-> weightedSum,
     starRating |-> convertPercentageToStars(weightedSum),
     grade |-> GRADE_MAPPING(convertPercentageToStars(weightedSum))]

breakdownOf(cs, pillarBreakdown) ==
    [pillarBreakdown |-> pillarBreakdown,
     validationBreakdown |-> validationBreakdownOf(cs),
     overallCalculation |->
        overallCalculationOf(RAdd(RAdd(pillarBreakdown.environmental.weightedContribution,
                                       pillarBreakdown.social.weightedContribution),
                                  pillarBreakdown.governance.weightedContribution))]

getCalculationBreakdown(cs) ==
    breakdownOf(cs, [pillar \in Pillars |-> pillarBreakdownOf(SelectSeq(cs, isValidClaim), pillar)])

(***************************************************************************)
(* Company cards (useCompanies) and the Dashboard's A-grade statistics.    *)
(***************************************************************************)
\* the company subjects of a claim list, in order of first occurrence
\* (Object.entries of the grouping object)
\* claim.subject; a claim without the field groups under undefined
subjectOf(c) == IF "subject" \in DOMAIN c THEN c.subject ELSE Undefined

RECURSIVE subjectsOf(_)
subjectsOf(cs) ==
    IF cs = <<>> THEN <<>>
    ELSE <<subjectOf(Head(cs))>> \o SelectSeq(subjectsOf(Tail(cs)), LAMBDA x : x # subjectOf(Head(cs)))

claimsOfSubject(cs, subject) == SelectSeq(cs, LAMBDA c : subjectOf(c) = subject)

\* the hidden random state before the engine runs on the k-th company
RECURSIVE rngBeforeCompany(_, _, _)
rngBeforeCompany(cs, r, k) ==
    IF k = 1 THEN r
    ELSE (rngBeforeCompany(cs, r, k - 1) + metricsDraws(claimsOfSubject(cs, subjectsOf(cs)[k - 1]))) % RngPeriod

companyCard(companyClaims, r) ==
    LET esgMetrics == calculateESGMetrics(companyClaims, r)
    IN  [id |-> companyClaims[1].id, subject |-> subjectOf(companyClaims[1]),
         stars |-> esgMetrics.overallStars, score |-> esgMetrics.overallScore,
         grade |-> esgMetrics.overallGrade]

\* Array.prototype.sort with (a, b) => b.score - a.score: stable, highest first
insertCard(sorted, card) ==
    LET k == Len(SelectSeq(sorted, LAMBDA x : RLe(card.score, x.score)))
    IN  SubSeq(sorted, 1, k) \o <<card>> \o SubSeq(sorted, k + 1, Len(sorted))

RECURSIVE sortCardsPrefix(_, _)
sortCardsPrefix(cards, n) ==
    IF n = 0 THEN <<>> ELSE insertCard(sortCardsPrefix(cards, n - 1), cards[n])

companiesData(cs, r) ==
    LET subjects == subjectsOf(cs)
        cards == [k \in 1..Len(subjects) |-> companyCard(claimsOfSubject(cs, subjects[k]), rngBeforeCompany(cs, r, k))]
    IN  sortCardsPrefix(cards, Len(cards))

\* ((company.score + 1) / 2) * 100
cardPercentage(company) == RMul(RDiv(RAdd(company.score, Num(1)), Num(2)), Num(100))

\* grade.startsWith('A') over the grade strings of the application
startsWithA(grade) ==
    CASE grade \in {"A+", "A", "A-"} -> TRUE
      [] OTHER -> FALSE

shouldBeAGrade(company) == RLe(Num(85), cardPercentage(company))

\* Dashboard: the number of cards whose percentage is at least 85
highPerformers(companies) == Len(SelectSeq(companies, shouldBeAGrade))

isCorrectCard(company) == shouldBeAGrade(company) = startsWithA(company.grade)

validateAGradeClassification(companies) ==
    [correct |-> Len(SelectSeq(companies, isCorrectCard)),
     incorrect |-> SelectSeq(companies, LAMBDA c : ~isCorrectCard(c)),
     expectedCount |-> Len(SelectSeq(companies, shouldBeAGrade))]

(***************************************************************************)
(* Data hooks: useESGMetrics, useClaim and useRealTimeESGMetrics.  What a  *)
(* request delivers is identified by its origin: the API's answer to the   *)
(* k-th fetch, or the static mock data.                                    *)
(***************************************************************************)
Error(message) == [instanceOfError |-> TRUE, message |-> message]

createError(message, status) == [message |-> message, status |-> status]

handleApiError(err) ==
    IF err.instanceOfError THEN createError(err.message, Undefined)
    ELSE createError("An unknown error occurred", Undefined)

ApiData(k) == [source |-> "api", fetch |-> k]
MockData == [source |-> "mock"]

\* useState initial values
initialState == [claims |-> <<>>, loading |-> "idle", error |-> Null, lastFetched |-> Null]

notPolling == [mounted |-> TRUE, effects |-> "none", interval |-> "none", isLoading |-> FALSE, isPolling |-> FALSE]

\* fetchClaims up to its first await
startedState(state) == [state EXCEPT !.loading = "loading", !.error = Null]

\* useESGMetrics.fetchClaims without companyUri and companySubject
missingIdentifierState(state) ==
    [state EXCEPT !.error = createError("Company identifier is required", Undefined)]

\* the try block after a successful API request
succeededState(state, k) ==
    [state EXCEPT !.claims = ApiData(k), !.lastFetched = k, !.loading = "success"]

\* the inner try block after a successful mock fallback
fellBackState(state, k) ==
    [state EXCEPT !.claims = MockData, !.lastFetched = k, !.loading = "success", !.error = Null]

\* faulty variant: the fallback's error is stored
storedError_ofFallback(err, mockErr) == handleApiError(mockErr)

\* const apiError = errorUtils.handleApiError(err), err being the API failure
storedError(err, mockErr) == handleApiError(err)

\* the inner catch block: both the API request and the mock fallback failed
failedState(state, err, mockErr) ==
    [state EXCEPT !.error = storedError(err, mockErr), !.loading = "error"]

newFetch == [stage |-> "api", err |-> Undefined, mockErr |-> Undefined]

settled(fetch) == fetch.stage \in {"succeeded", "fellBack", "failed"}

(***************************************************************************)
(* Inputs: claim collections over small value sets.  A claim's id is its   *)
(* position in the collection.                                             *)
(***************************************************************************)
NoAspect == <<>>

Claim(aspect, sc, confidence, stars, createdAt, validators) ==
    [aspect |-> aspect, score |-> sc, confidence |-> confidence, stars |-> stars,
     createdAt |-> createdAt, validators |-> validators]

WithIds(cs) ==
    [i \in 1..Len(cs) |->
        [id |-> i, aspect |-> cs[i].aspect, score |-> cs[i].score,
         confidence |-> cs[i].confidence, stars |-> cs[i].stars,
         createdAt |-> cs[i].createdAt, validators |-> cs[i].validators]]

SeqsUpTo(S, n) == UNION {[1..k -> S] : k \in 0..n}

\* scored claims, as calculateESGMetrics aggregates them; a claim's stars are
\* the star rendering of its score (NormalizedRating carries both)
ESGAspects == {<<"Climate">>, <<"labor">>, <<"Board">>, <<"ESG", "Overall">>}
ESGScores == {Num(-1), Rat(1, 5), Num(1)}
ESGConfidences == {Undefined, Rat(4, 5), Num(1)}
ESGCreatedAt == {0, Now}

StarsOfScore(s) == Num(convertPercentageToStars(normalizeScoreToPercentage(s)))

\* claims created one half-life ago carry confidence 0.8
ESGWeighting ==
    {w \in ESGConfidences \X ESGCreatedAt : w[2] = Now \/ w[1] = Rat(4, 5)}

ESGClaims ==
    {Claim(a, s, w[1], StarsOfScore(s), w[2], <<>>) :
        a \in ESGAspects, s \in ESGScores, w \in ESGWeighting}

\* claims with labels that match one pillar, several pillars or none
PillarAspects ==
    {NoAspect, <<"Climate", " ", "risk">>, <<"On", "board", "ing">>,
     <<"Human", " ", "Rights">>, <<"Human", "-", "Rights">>,
     <<"ESG", "-", "climate">>, <<"ESG", "Overall">>}

PillarClaims ==
    {Claim(a, s, Num(1), StarsOfScore(s), Now, <<>>) : a \in PillarAspects, s \in ESGScores}

\* claims as the API delivers them, unchecked: scores and stars may lie outside
\* their documented ranges
UncheckedScores == {Num(-1), Num(1), Num(3)}
UncheckedStars == {Num(3), Num(7)}

UncheckedClaims ==
    {Claim(a, s, Num(1), st, Now, <<>>) :
        a \in {<<"Climate">>, <<"ESG", "Overall">>},
        s \in UncheckedScores, st \in UncheckedStars}

\* metrics values handed to validateMetrics: consistent percentages, any
\* combination of validation counts
MaxCount == 3

CandidateMetrics ==
    {[overallScore |-> Num(0), overallPercentage |-> Num(50), overallStars |-> st,
      overallGrade |-> "C", environmentalScore |-> Num(50), socialScore |-> Num(50),
      governanceScore |-> Num(50), confidenceLevel |-> Rat(4, 5),
      industryPercentile |-> 50, totalValidations |-> t, endorsements |-> e,
      rejections |-> r, averageRating |-> Num(3),
      endorsementRate |-> IF t > 0 THEN RMul(Rat(e, t), Num(100)) ELSE Num(0),
      consensusPercentage |-> Num(100), lastUpdated |-> Now] :
        st \in {2, 6}, t \in 0..MaxCount, e \in 0..MaxCount, r \in 0..MaxCount}

\* valid claims of one pillar, as calculatePillarScore hands them to
\* calculateWeightedScore
WeightedScores == {Num(-1), Num(0), Rat(1, 5)}
WeightedConfidences == {Rat(1, 2), Rat(4, 5), Num(1)}

WeightedClaims ==
    {Claim(<<"Climate">>, s, c, Undefined, t, <<>>) :
        s \in WeightedScores, c \in WeightedConfidences, t \in ESGCreatedAt}

\* rated claims with validator sub-records
ValStars == {Undefined, Num(3), Num(5)}
ValidatorRatings == {Num(0), Num(2)}
Validators == {[rating |-> r, verified |-> v] : r \in ValidatorRatings, v \in BOOLEAN}

ValClaims ==
    {Claim(<<"ESG", "Overall">>, Rat(1, 5), Rat(4, 5), st, Now, vs) :
        st \in ValStars, vs \in SeqsUpTo(Validators, MaxValidators)}

\* claims that carry only their own star rating
RatedStars == {Undefined} \cup {Num(n) : n \in 0..5}

RatedClaims ==
    {Claim(<<"ESG", "Overall">>, Rat(1, 5), Rat(4, 5), st, Now, <<>>) : st \in RatedStars}

\* a comparison population of raw scores
PopulationScores == {Undefined, Null, Rat(-1, 2), Num(0), Rat(1, 2)}

PopulationClaims ==
    {Claim(NoAspect, s, Rat(4, 5), Undefined, Now, <<>>) : s \in PopulationScores}

SubjectScores == {Rat(-1, 2), Num(0), Rat(1, 2)}

\* percentages on a grid of 1 / PercentResolution over [0, 100]
PercentResolution == 2

Percentages == {Rat(k, PercentResolution) : k \in 0..(100 * PercentResolution)}

\* raw scores on a grid of 1 / ScoreResolution, inside and outside [-1, 1]
ScoreResolution == 10
MaxScoreMagnitude == 3

RawScores ==
    {Rat(k, ScoreResolution) :
        k \in (-MaxScoreMagnitude * ScoreResolution)..(MaxScoreMagnitude * ScoreResolution)}

\* rated claims created now, one and two half-lives ago
HistoryClaims ==
    {Claim(<<"ESG", "Overall">>, Rat(1, 5), Rat(4, 5), st, t, vs) :
        st \in {Undefined, Num(5)}, t \in {Now - 2, Now - 1, Now},
        vs \in {<<>>, <<[rating |-> Num(2), verified |-> TRUE]>>}}

\* claims with and without a confidence, labelled for a pillar or as general
BreakdownClaims ==
    {Claim(a, s, c, StarsOfScore(s), Now, <<>>) :
        a \in {<<"Climate">>, <<"Board">>, <<"ESG", "Overall">>}, s \in ESGScores,
        c \in {Undefined, Num(1)}}

\* the rated claims of a few companies, as getRatedClaims returns them
CompanyClaims ==
    {[subject |-> subject, aspect |-> <<"ESG", "Overall">>, score |-> s,
      confidence |-> Rat(4, 5), stars |-> StarsOfScore(s), createdAt |-> Now,
      validators |-> <<>>] :
        subject \in {"Acme", "Globex"},
        s \in {Num(-1), Num(0), Rat(3, 5), Rat(4, 5), Num(1)}}

RatedClaimsResponse(input) == [i \in 1..Len(input) |-> [id |-> i] @@ input[i]]

\* what the API and the mock fallback can throw
ApiErrors ==
    {Error("Network error: Unable to connect to server"),
     Error("Invalid response format: expected array of claims")}
MockErrors ==
    {Error("Failed to fetch dynamically imported module"),
     Error("Claim not found in mock data")}

(***************************************************************************)
(* The engine is stateless: a behaviour is one call of one function on one *)
(* argument.  Init draws the argument, the action applies the function.    *)
(***************************************************************************)
\* no data hook is mounted while the engine is called directly
NoHook ==
    /\ hook = [name |-> "none", identifier |-> FALSE]
    /\ hookState = initialState
    /\ fetches = <<>>
    /\ poll = notPolling

NoCall ==
    /\ rng = 0
    /\ phase = "input"
    /\ called = "none"
    /\ result = NoResult
    /\ earlier = NoResult
    /\ diagnostics = <<>>
    /\ NoHook

ClaimInput(domain, maxLen) ==
    /\ collection = "array"
    /\ candidate = Undefined
    /\ \E n \in 0..maxLen : \E input \in [1..n -> domain] : claims = WithIds(input)

NoClaims == collection = "array" /\ candidate = Undefined /\ claims = <<>>

InitESG == NoCall /\ ClaimInput(ESGClaims, MaxClaims)
               /\ percentage = Undefined /\ score = Undefined

InitVal == NoCall /\ ClaimInput(ValClaims, MaxValClaims)
               /\ percentage = Undefined /\ score = Undefined

InitRatings == NoCall /\ ClaimInput(RatedClaims, MaxRatedClaims)
                   /\ percentage = Undefined /\ score = Undefined

InitPercentile == NoCall /\ ClaimInput(PopulationClaims, MaxPopulation)
                      /\ percentage = Undefined /\ score \in SubjectScores

InitStars == NoCall /\ NoClaims /\ percentage \in Percentages /\ score = Undefined

InitNormalize == NoCall /\ NoClaims /\ percentage = Undefined /\ score \in RawScores

MissingClaims ==
    collection \in {"null", "undefined"} /\ candidate = Undefined /\ claims = <<>>

InitEntry == NoCall /\ (ClaimInput(RatedClaims, MaxClaims) \/ MissingClaims)
                 /\ percentage = Undefined /\ score = Undefined

InitUnchecked == NoCall /\ ClaimInput(UncheckedClaims, MaxClaims)
                     /\ percentage = Undefined /\ score = Undefined

InitValidate ==
    /\ NoCall
    /\ collection = "array" /\ claims = <<>>
    /\ candidate \in CandidateMetrics
    /\ percentage = Undefined /\ score = Undefined

InitPillar == NoCall /\ ClaimInput(PillarClaims, MaxClaims)
                  /\ percentage = Undefined /\ score = Undefined

InitWeighted == NoCall /\ ClaimInput(WeightedClaims, MaxClaims)
                    /\ percentage = Undefined /\ score = Undefined

InitHistory == NoCall /\ ClaimInput(HistoryClaims, MaxValClaims)
                   /\ percentage = Undefined /\ score = Undefined

InitRepeat == NoCall /\ ClaimInput(RatedClaims, MaxClaims)
                  /\ percentage = Undefined /\ score = Undefined

InitBreakdown == NoCall /\ ClaimInput(BreakdownClaims, MaxClaims)
                     /\ percentage = Undefined /\ score = Undefined

InitGrade == NoCall /\ NoClaims /\ percentage = Undefined /\ score \in RawScores

InitCompanies ==
    /\ NoCall
    /\ collection = "array" /\ candidate = Undefined
    /\ \E n \in 0..MaxClaims : \E input \in [1..n -> CompanyClaims] :
           claims = RatedClaimsResponse(input)
    /\ percentage = Undefined /\ score = Undefined

\* the engine's variables while a hook is observed
NoEngineCall ==
    /\ claims = <<>> /\ collection = "array" /\ candidate = Undefined
    /\ rng = 0 /\ percentage = Undefined /\ score = Undefined
    /\ phase = "input" /\ called = "none"
    /\ result = NoResult /\ earlier = NoResult /\ diagnostics = <<>>

\* useESGMetrics or useClaim, mounted, before any fetch
InitFetch ==
    /\ NoEngineCall
    /\ hook \in {[name |-> n, identifier |-> i] : n \in {"useESGMetrics", "useClaim"}, i \in BOOLEAN}
    /\ hookState = initialState
    /\ fetches = <<>>
    /\ poll = notPolling

\* useRealTimeESGMetrics after its first render, before its effects have run
InitPoll ==
    /\ NoEngineCall
    /\ hook \in {[name |-> "useRealTimeESGMetrics", identifier |-> i] : i \in BOOLEAN}
    /\ hookState = initialState
    /\ fetches = <<>>
    /\ poll = [notPolling EXCEPT !.effects = "mount"]

Init ==
    \/ InitESG
    \/ InitValidate
    \/ InitUnchecked
    \/ InitEntry
    \/ InitPillar
    \/ InitWeighted
    \/ InitVal
    \/ InitRatings
    \/ InitPercentile
    \/ InitStars
    \/ InitNormalize
    \/ InitHistory
    \/ InitRepeat
    \/ InitCompanies
    \/ InitBreakdown
    \/ InitGrade
    \/ InitFetch
    \/ InitPoll

CalculateESGMetrics ==
    /\ phase = "input"
    /\ phase' = "done"
    /\ called' = "calculateESGMetrics"
    \* !claims: a missing collection returns the default metrics
    /\ \E outcome \in {esgOutcome(claims, rng)} :
           /\ result' = IF collection = "array" THEN outcome.returned
                         ELSE getDefaultMetrics
           /\ diagnostics' = outcome.warnings
    /\ rng' = (rng + metricsDraws(claims)) % RngPeriod
    /\ UNCHANGED <<earlier, claims, collection, candidate, percentage, score>>
    /\ UNCHANGED hookVars

CalculateValidationMetrics ==
    /\ phase = "input"
    \* claims.forEach on null or undefined throws a TypeError
    /\ phase' = IF collection = "array" THEN "done" ELSE "thrown"
    /\ called' = "calculateValidationMetrics"
    /\ result' = IF collection = "array" THEN calculateValidationMetrics(claims, rng)
                  ELSE NoResult
    /\ rng' = (rng + validationDraws(claims)) % RngPeriod
    /\ UNCHANGED <<earlier, claims, collection, candidate, percentage, score, diagnostics>>
    /\ UNCHANGED hookVars

CalculateIndustryPercentile ==
    /\ phase = "input"
    /\ score # Undefined
    /\ phase' = "done"
    /\ called' = "calculateIndustryPercentile"
    /\ result' = calculateIndustryPercentile(score, claims)
    /\ UNCHANGED <<earlier, claims, collection, candidate, rng, percentage, score, diagnostics>>
    /\ UNCHANGED hookVars

ConvertPercentageToStars ==
    /\ phase = "input"
    /\ percentage # Undefined
    /\ phase' = "done"
    /\ called' = "convertPercentageToStars"
    /\ result' = convertPercentageToStars(percentage)
    /\ UNCHANGED <<earlier, claims, collection, candidate, rng, percentage, score, diagnostics>>
    /\ UNCHANGED hookVars

NormalizeScoreToPercentage ==
    /\ phase = "input"
    /\ score # Undefined
    /\ phase' = "done"
    /\ called' = "normalizeScoreToPercentage"
    /\ result' = normalizeScoreToPercentage(score)
    /\ UNCHANGED <<earlier, claims, collection, candidate, rng, percentage, score, diagnostics>>
    /\ UNCHANGED hookVars

CalculateWeightedScore ==
    /\ phase = "input"
    /\ collection = "array"
    /\ phase' = "done"
    /\ called' = "calculateWeightedScore"
    /\ result' = calculateWeightedScore(claims)
    /\ UNCHANGED <<earlier, claims, collection, candidate, rng, percentage, score, diagnostics>>
    /\ UNCHANGED hookVars

ValidateMetrics ==
    /\ phase = "input"
    /\ candidate # Undefined
    /\ phase' = "done"
    /\ called' = "validateMetrics"
    /\ result' = validateMetrics(candidate)
    /\ diagnostics' = validationErrors(candidate)
    /\ UNCHANGED <<earlier, claims, collection, candidate, rng, percentage, score>>
    /\ UNCHANGED hookVars

\* a second call of calculateESGMetrics on the same collection at the same instant
RepeatESGMetrics ==
    /\ phase = "done"
    /\ called = "calculateESGMetrics"
    /\ collection = "array"
    /\ phase' = "repeated"
    /\ earlier' = result
    /\ \E outcome \in {esgOutcome(claims, rng)} :
           /\ result' = outcome.returned
           /\ diagnostics' = outcome.warnings
    /\ rng' = (rng + metricsDraws(claims)) % RngPeriod
    /\ UNCHANGED <<claims, collection, candidate, percentage, score, called>>
    /\ UNCHANGED hookVars

\* a second call of calculateValidationMetrics on the same collection at the same
\* instant
RepeatValidationMetrics ==
    /\ phase = "done"
    /\ called = "calculateValidationMetrics"
    /\ phase' = "repeated"
    /\ earlier' = result
    /\ result' = calculateValidationMetrics(claims, rng)
    /\ rng' = (rng + validationDraws(claims)) % RngPeriod
    /\ UNCHANGED <<claims, collection, candidate, percentage, score, called, diagnostics>>
    /\ UNCHANGED hookVars

\* useCompanies.fetchCompanies once the rated claims have arrived: the claims
\* are grouped by subject, one card is built per company and the cards are
\* sorted by score
FetchCompanies ==
    /\ phase = "input"
    /\ collection = "array"
    /\ phase' = "done"
    /\ called' = "fetchCompanies"
    /\ result' = companiesData(claims, rng)
    /\ rng' = rngBeforeCompany(claims, rng, Len(subjectsOf(claims)) + 1)
    /\ UNCHANGED <<earlier, claims, collection, candidate, percentage, score, diagnostics>>
    /\ UNCHANGED hookVars

GetCalculationBreakdown ==
    /\ phase = "input"
    \* claims.filter on null or undefined throws a TypeError
    /\ phase' = IF collection = "array" THEN "done" ELSE "thrown"
    /\ called' = "getCalculationBreakdown"
    /\ result' = IF collection = "array" THEN getCalculationBreakdown(claims) ELSE NoResult
    /\ UNCHANGED <<earlier, claims, collection, candidate, rng, percentage, score, diagnostics>>
    /\ UNCHANGED hookVars

CalculateGrade ==
    /\ phase = "input"
    /\ score # Undefined
    /\ phase' = "done"
    /\ called' = "calculateGrade"
    /\ result' = calculateGrade(score)
    /\ UNCHANGED <<earlier, claims, collection, candidate, rng, percentage, score, diagnostics>>
    /\ UNCHANGED hookVars

\* fetchClaims / fetchClaim up to the first await.  useClaim calls fetchClaim
\* only with an id; useESGMetrics.fetchClaims returns early without identifier.
fetchStarted ==
    /\ Len(fetches) < MaxFetches
    /\ hook.name = "useClaim" => hook.identifier
    /\ hookState' = IF hook.identifier THEN startedState(hookState)
                     ELSE missingIdentifierState(hookState)
    /\ fetches' = IF hook.identifier THEN Append(fetches, newFetch) ELSE fetches

\* refresh() of useESGMetrics, refetch() of useClaim
Refresh ==
    /\ hook.name \in {"useESGMetrics", "useClaim"}
    /\ poll.mounted
    /\ fetchStarted
    /\ UNCHANGED <<hook, poll>>
    /\ UNCHANGED engineVars

\* the API request of fetch k resolves.  useClaim then awaits the company's
\* claims, which cannot fail the fetch; useESGMetrics stores the claims.
ApiSucceeds(k) ==
    /\ fetches[k].stage = "api"
    /\ fetches' = [fetches EXCEPT ![k].stage = IF hook.name = "useClaim" THEN "company" ELSE "succeeded"]
    /\ hookState' = IF hook.name = "useClaim" THEN hookState ELSE succeededState(hookState, k)
    /\ UNCHANGED <<hook, poll>>
    /\ UNCHANGED engineVars

\* useClaim: the company's claims have arrived (or their fallbacks have run)
CompanyClaimsArrive(k) ==
    /\ fetches[k].stage = "company"
    /\ fetches' = [fetches EXCEPT ![k].stage = "succeeded"]
    /\ hookState' = [succeededState(hookState, k) EXCEPT !.lastFetched = hookState.lastFetched]
    /\ UNCHANGED <<hook, poll>>
    /\ UNCHANGED engineVars

\* the API request of fetch k rejects: the catch block awaits the mock service
ApiFails(k, err) ==
    /\ fetches[k].stage = "api"
    /\ fetches' = [fetches EXCEPT ![k].stage = "mock", ![k].err = err]
    /\ UNCHANGED <<hook, hookState, poll>>
    /\ UNCHANGED engineVars

MockSucceeds(k) ==
    /\ fetches[k].stage = "mock"
    /\ fetches' = [fetches EXCEPT ![k].stage = "fellBack"]
    /\ hookState' = IF hook.name = "useClaim"
                     THEN [fellBackState(hookState, k) EXCEPT !.lastFetched = hookState.lastFetched]
                     ELSE fellBackState(hookState, k)
    /\ UNCHANGED <<hook, poll>>
    /\ UNCHANGED engineVars

MockFails(k, mockErr) ==
    /\ fetches[k].stage = "mock"
    /\ fetches' = [fetches EXCEPT ![k].stage = "failed", ![k].mockErr = mockErr]
    /\ hookState' = failedState(hookState, fetches[k].err, mockErr)
    /\ UNCHANGED <<hook, poll>>
    /\ UNCHANGED engineVars

\* a commit of useRealTimeESGMetrics followed by its passive effects.  After the
\* first render they are the auto-fetch of useESGMetrics and the first
\* setInterval, whose callback captures the esgData of that render (idle).
\* After a later render the previous interval is cleared and a new one captures
\* the loading state of that render.
RunEffects ==
    /\ hook.name = "useRealTimeESGMetrics"
    /\ poll.mounted
    /\ hook.identifier
    /\ \/ poll.effects = "mount"
       \/ poll.effects = "ran" /\ poll.isLoading # (hookState.loading = "loading")
    /\ IF poll.effects = "mount"
       THEN /\ fetchStarted
            /\ poll' = [poll EXCEPT !.effects = "ran", !.interval = "active", !.isLoading = FALSE, !.isPolling = TRUE]
       ELSE /\ poll' = [poll EXCEPT !.interval = "active", !.isLoading = (hookState.loading = "loading"), !.isPolling = TRUE]
            /\ UNCHANGED <<hookState, fetches>>
    /\ UNCHANGED hook
    /\ UNCHANGED engineVars

\* the interval callback: if (!esgData.isLoading) esgData.refresh()
PollTick ==
    /\ poll.interval = "active"
    /\ IF ~poll.isLoading THEN fetchStarted ELSE UNCHANGED <<hookState, fetches>>
    /\ UNCHANGED <<hook, poll>>
    /\ UNCHANGED engineVars

\* unmount: the effect's cleanup clears the interval
Unmount ==
    /\ hook.name = "useRealTimeESGMetrics"
    /\ poll.mounted
    /\ poll' = [poll EXCEPT !.mounted = FALSE, !.isPolling = FALSE,
                            !.interval = IF poll.interval = "active" THEN "cleared" ELSE poll.interval]
    /\ UNCHANGED <<hook, hookState, fetches>>
    /\ UNCHANGED engineVars

ClaimResponses == \E k \in 1..Len(fetches) : CompanyClaimsArrive(k)

Responses ==
    \E k \in 1..Len(fetches) :
        \/ ApiSucceeds(k)
        \/ \E err \in ApiErrors : ApiFails(k, err)
        \/ MockSucceeds(k)
        \/ \E mockErr \in MockErrors : MockFails(k, mockErr)

Next ==
    \/ CalculateESGMetrics
    \/ CalculateValidationMetrics
    \/ CalculateIndustryPercentile
    \/ ConvertPercentageToStars
    \/ NormalizeScoreToPercentage
    \/ CalculateWeightedScore
    \/ ValidateMetrics
    \/ RepeatESGMetrics
    \/ RepeatValidationMetrics
    \/ FetchCompanies
    \/ GetCalculationBreakdown
    \/ CalculateGrade
    \/ Refresh
    \/ Responses
    \/ ClaimResponses
    \/ RunEffects
    \/ PollTick
    \/ Unmount

Spec == Init /\ [][Next]_vars

\* calculateESGMetrics over scored claim collections
SpecESG == InitESG /\ [][CalculateESGMetrics]_vars

\* calculateValidationMetrics over claims with validator sub-records
SpecVal == InitVal /\ [][CalculateValidationMetrics]_vars

\* calculateValidationMetrics over claims that carry their own star rating
SpecRatings == InitRatings /\ [][CalculateValidationMetrics]_vars

\* calculateIndustryPercentile over small comparison populations
SpecPercentile == InitPercentile /\ [][CalculateIndustryPercentile]_vars

\* convertPercentageToStars over the percentage grid
SpecStars == InitStars /\ [][ConvertPercentageToStars]_vars

\* both entry points over present and missing claim collections
SpecEntry == InitEntry /\ [][CalculateESGMetrics \/ CalculateValidationMetrics]_vars

\* calculateESGMetrics over claims with unchecked score and star values
SpecUnchecked == InitUnchecked /\ [][CalculateESGMetrics]_vars

\* validateMetrics over metrics values with arbitrary validation counts
SpecValidate == InitValidate /\ [][ValidateMetrics]_vars

\* calculateESGMetrics over claims labelled for one pillar, several or none
SpecPillar == InitPillar /\ [][CalculateESGMetrics]_vars

\* calculateWeightedScore over the claims of one pillar
SpecWeighted == InitWeighted /\ [][CalculateWeightedScore]_vars

\* normalizeScoreToPercentage over the raw score grid
SpecNormalize == InitNormalize /\ [][NormalizeScoreToPercentage]_vars

\* calculateValidationMetrics over rated claims of different ages
SpecHistory == InitHistory /\ [][CalculateValidationMetrics]_vars

\* useCompanies.fetchCompanies over the rated claims of a few companies
SpecCompanies == InitCompanies /\ [][FetchCompanies]_vars

\* getCalculationBreakdown over claims with and without a confidence
SpecBreakdown == InitBreakdown /\ [][GetCalculationBreakdown]_vars

\* calculateESGMetrics over claims with and without a confidence
SpecRated == InitBreakdown /\ [][CalculateESGMetrics]_vars

\* calculateGrade over the raw score grid
SpecGrade == InitGrade /\ [][CalculateGrade]_vars

\* useESGMetrics and useClaim with refreshes while earlier fetches are in flight
SpecFetch == InitFetch /\ [][Refresh \/ Responses \/ ClaimResponses]_vars

\* useRealTimeESGMetrics: renders, poll ticks, responses and unmount
SpecPoll == InitPoll /\ [][RunEffects \/ PollTick \/ Unmount \/ Responses]_vars

\* each entry point called twice on the same collection
SpecRepeat ==
    InitRepeat /\ [][CalculateESGMetrics \/ CalculateValidationMetrics
                         \/ RepeatESGMetrics \/ RepeatValidationMetrics]_vars

(***************************************************************************)
(* Properties of calculateESGMetrics (checked under SpecESG).              *)
(***************************************************************************)
MetricsReturned == phase = "done" /\ called = "calculateESGMetrics"

ComputedPath == MetricsReturned /\ Len(SelectSeq(claims, isValidClaim)) > 0

PillarPercentage(m, pillar) ==
    CASE pillar = "environmental" -> m.environmentalScore
      [] pillar = "social"        -> m.socialScore
      [] pillar = "governance"    -> m.governanceScore

MatchedPillars(claim) == {p \in Pillars : isClaimInPillar(claim, p)}

\* one valid claim, score 0.2, confidence 0.8, created now, labelled for exactly
\* one pillar and not as a general/overall assessment
SinglePillarScenario ==
    /\ MetricsReturned
    /\ Len(claims) = 1
    /\ claims[1].score = Rat(1, 5)
    /\ claims[1].confidence = Rat(4, 5)
    /\ claims[1].createdAt = Now
    /\ Cardinality(MatchedPillars(claims[1])) = 1
    /\ ~isOverallClaim(claims[1])

\* C1 as stated: in the single-pillar scenario the matched pillar reports 60, the
\* two other pillars report 0 and the overall percentage is weight * 60.
C1_OtherPillarsZero ==
    SinglePillarScenario =>
        \A p \in Pillars :
            IF p \in MatchedPillars(claims[1])
            THEN /\ PillarPercentage(result, p) = Num(60)
                 /\ result.overallPercentage = RMul(ESG_WEIGHTS[p], Num(60))
            ELSE PillarPercentage(result, p) = Num(0)

\* C1 amended: in the single-pillar scenario the matched pillar reports 60, the
\* two other pillars have raw score 0 and so report 50, and the overall percentage
\* is weight * 60 + (1 - weight) * 50 (54 when the pillar is Environmental).
C1_OtherPillarsNeutral ==
    SinglePillarScenario =>
        \A p \in Pillars :
            IF p \in MatchedPillars(claims[1])
            THEN /\ PillarPercentage(result, p) = Num(60)
                 /\ result.overallPercentage =
                        RAdd(RMul(ESG_WEIGHTS[p], Num(60)),
                             RMul(RSub(Num(1), ESG_WEIGHTS[p]), Num(50)))
            ELSE PillarPercentage(result, p) = Num(50)

C1_Witness ==
    /\ SinglePillarScenario
    /\ MatchedPillars(claims[1]) = {"environmental"}
    /\ result.environmentalScore = Num(60)
    /\ result.overallPercentage = Num(54)

InUnitRange(x, lo, hi) == RLe(Num(lo), x) /\ RLe(x, Num(hi))

InputsInRange ==
    \A i \in 1..Len(claims) :
        /\ IsNumber(claims[i].score) => InUnitRange(claims[i].score, -1, 1)
        /\ IsNumber(claims[i].confidence) => InUnitRange(claims[i].confidence, 0, 1)
        /\ IsNumber(claims[i].stars) => InUnitRange(claims[i].stars, 0, 5)
        /\ \A j \in 1..Len(claims[i].validators) :
               InUnitRange(claims[i].validators[j].rating, 0, 5)

\* C3: for inputs in their documented ranges every percentage field of the
\* returned metrics lies in [0,100], the stars and the average rating in [0,5]
\* and the confidence level in [0,1].
C3_FieldsInRange ==
    (MetricsReturned /\ InputsInRange) =>
        /\ InUnitRange(result.overallPercentage, 0, 100)
        /\ InUnitRange(result.environmentalScore, 0, 100)
        /\ InUnitRange(result.socialScore, 0, 100)
        /\ InUnitRange(result.governanceScore, 0, 100)
        /\ result.industryPercentile \in 0..100
        /\ InUnitRange(result.endorsementRate, 0, 100)
        /\ InUnitRange(result.consensusPercentage, 0, 100)
        /\ result.overallStars \in 0..5
        /\ InUnitRange(result.averageRating, 0, 5)
        /\ InUnitRange(result.confidenceLevel, 0, 1)

C3_Witness ==
    /\ ComputedPath
    /\ InputsInRange
    /\ Len(claims) = 2
    /\ result.overallPercentage = Num(100)
    /\ result.overallStars = 5
    /\ result.confidenceLevel = Num(1)
    /\ result.averageRating = Num(5)

SameStarBand(p, q) ==
    \E i \in 1..Len(STAR_RATING_THRESHOLDS) :
        inStarBand(p, STAR_RATING_THRESHOLDS[i]) /\ inStarBand(q, STAR_RATING_THRESHOLDS[i])

\* C5: the overall grade is computed on the 12-step scale and not from the star
\* count: any percentage in the same star band as the returned overall percentage
\* but in another grade band is given another grade than the returned one.
C5_GradeNotDerivedFromStars ==
    ComputedPath =>
        \A q \in Percentages :
            ( /\ SameStarBand(result.overallPercentage, q)
              /\ expectedGrade(q) # expectedGrade(result.overallPercentage) )
            => GRADE_MAPPING(convertPercentageToStars(q)) # result.overallGrade

(***************************************************************************)
(* Properties of convertPercentageToStars (checked under SpecStars).       *)
(***************************************************************************)
StarsReturned == phase = "done" /\ called = "convertPercentageToStars"

BandsContaining(p) ==
    {i \in 1..Len(STAR_RATING_THRESHOLDS) : inStarBand(p, STAR_RATING_THRESHOLDS[i])}

\* C4: every percentage in [0,100], integer or not, lies in exactly one band of
\* STAR_RATING_THRESHOLDS, so the default return is never taken.
C4_ExactlyOneStarBand ==
    StarsReturned => Cardinality(BandsContaining(percentage)) = 1

(***************************************************************************)
(* Properties of calculateValidationMetrics (checked under SpecVal and     *)
(* SpecRatings).                                                           *)
(***************************************************************************)
ValidationReturned == phase = "done" /\ called = "calculateValidationMetrics"

\* C6: on an empty claim list the result is all zero, with verifiedRate 100 and
\* an empty validationHistory.
C6_EmptyListResult ==
    (ValidationReturned /\ claims = <<>>) =>
        /\ result.totalValidations = 0
        /\ result.endorsements = 0
        /\ result.rejections = 0
        /\ result.averageRating = Num(0)
        /\ result.endorsementRate = Num(0)
        /\ result.consensusPercentage = Num(0)
        /\ result.verifiedRate = Num(100)
        /\ result.validationHistory = <<>>

ValidatorRecords ==
    {<<i, j>> \in (1..Len(claims)) \X (1..MaxValidators + 1) :
        j <= Len(claims[i].validators)}

VerifiedRecords == {x \in ValidatorRecords : claims[x[1]].validators[x[2]].verified}

\* C7: for every claim collection (here every non-empty one; the empty one is
\* C6's case) verifiedRate is 100 * verified validator sub-records / all
\* validator sub-records when there is at least one sub-record, and 100 when
\* there is none, whatever the claims' stars and the validators' ratings.
C7_VerifiedRateOverValidators ==
    (ValidationReturned /\ claims # <<>>) =>
        IF ValidatorRecords = {}
        THEN result.verifiedRate = Num(100)
        ELSE result.verifiedRate =
                 Rat(100 * Cardinality(VerifiedRecords), Cardinality(ValidatorRecords))

\* the rating population: each claim's stars when > 0, each validator's rating when > 0
Population == collectRatings(claims)

PopulationIndex == 1..Len(Population)

\* C8: endorsements + rejections <= totalValidations, with equality exactly when
\* no collected rating equals 3.
C8_EndorsementsPlusRejections ==
    ValidationReturned =>
        /\ result.endorsements + result.rejections <= result.totalValidations
        /\ (result.endorsements + result.rejections = result.totalValidations)
               <=> (\A i \in PopulationIndex : Population[i] # Num(3))

C8_Witness ==
    /\ ValidationReturned
    /\ \E i \in 1..Len(claims) : claims[i].stars = Num(3)
    /\ \E i \in 1..Len(claims) : claims[i].stars = Num(5)
    /\ \E x \in ValidatorRecords : claims[x[1]].validators[x[2]].rating = Num(2)
    /\ result.totalValidations = 3
    /\ result.endorsements = 1
    /\ result.rejections = 1

RECURSIVE SumOfRatings(_)
SumOfRatings(n) == IF n = 0 THEN 0 ELSE Population[n][1] + SumOfRatings(n - 1)

\* ratings r with |r - mean| <= 1, the mean being total / count
NearMean(total, count) ==
    {i \in PopulationIndex : Abs(Population[i][1] * count - total) <= count}

\* C9: for a non-empty population averageRating is the mean, endorsementRate is
\* endorsements / total * 100 and consensusPercentage is the share of ratings
\* within 1 of the mean; [5,4,2,1,1] gives 5, 2, 3, 2.6 and 20, and identical
\* ratings give consensus 100.
C9_RatingStatistics ==
    (ValidationReturned /\ Len(Population) > 0) =>
        LET count == Len(Population)
            total == SumOfRatings(count)
        IN  /\ result.totalValidations = count
            /\ result.averageRating[1] * count = total * result.averageRating[2]
            /\ result.endorsementRate[1] * count
                   = 100 * result.endorsements * result.endorsementRate[2]
            /\ result.endorsements
                   = Cardinality({i \in PopulationIndex : Population[i][1] >= 4})
            /\ result.consensusPercentage[1] * count
                   = 100 * Cardinality(NearMean(total, count))
                         * result.consensusPercentage[2]
            /\ Population = <<Num(5), Num(4), Num(2), Num(1), Num(1)>> =>
                   /\ result.totalValidations = 5
                   /\ result.endorsements = 2
                   /\ result.rejections = 3
                   /\ result.averageRating = Rat(26, 10)
                   /\ result.consensusPercentage = Num(20)
            /\ (\A i \in PopulationIndex : Population[i] = Population[1]) =>
                   result.consensusPercentage = Num(100)

C9_Witness ==
    /\ ValidationReturned
    /\ Population = <<Num(5), Num(4), Num(2), Num(1), Num(1)>>
    /\ result.averageRating = Rat(26, 10)
    /\ result.consensusPercentage = Num(20)

(***************************************************************************)
(* Properties of calculateIndustryPercentile (checked under SpecPercentile).*)
(***************************************************************************)
PercentileReturned == phase = "done" /\ called = "calculateIndustryPercentile"

Scored == {i \in 1..Len(claims) : IsNumber(claims[i].score)}

StrictlyBelow == {i \in Scored : RLt(claims[i].score, score)}

Tied == {i \in Scored : claims[i].score = score}

\* C10: the result is 50 for an empty population and otherwise the integer
\* nearest to 100 * (scores strictly below) / (population size), halves up; ties
\* are not counted as below.
C10_PercentileStrictlyBelow ==
    PercentileReturned =>
        IF Scored = {}
        THEN result = 50
        ELSE LET size == Cardinality(Scored)
                 below == Cardinality(StrictlyBelow)
             IN  /\ 2 * size * result <= 200 * below + size
                 /\ 200 * below + size < 2 * size * (result + 1)

C10_Witness ==
    /\ PercentileReturned
    /\ Cardinality(Scored) = 3
    /\ Cardinality(StrictlyBelow) = 2
    /\ Tied # {}
    /\ result = 67

(***************************************************************************)
(* Properties of normalizeScoreToPercentage (checked under SpecNormalize). *)
(***************************************************************************)
NormalizeReturned == phase = "done" /\ called = "normalizeScoreToPercentage"

\* C11: normalizeScoreToPercentage maps -1 to 0, 0 to 50 and 1 to 100, gives a
\* result in [0,100] for every score, also outside [-1,1], and never gives a
\* smaller result for a larger score.
C11_NormalizeMonotoneClamped ==
    NormalizeReturned =>
        /\ score = Num(-1) => result = Num(0)
        /\ score = Num(0) => result = Num(50)
        /\ score = Num(1) => result = Num(100)
        /\ RLe(Num(0), result) /\ RLe(result, Num(100))
        /\ \A lower \in RawScores :
               RLe(lower, score) => RLe(normalizeScoreToPercentage(lower), result)

C11_Witness ==
    /\ NormalizeReturned
    /\ RLt(Num(1), score)
    /\ result = Num(100)
    /\ \E lower \in RawScores :
           RLt(lower, score) /\ RLt(normalizeScoreToPercentage(lower), result)

(***************************************************************************)
(* Properties of calculateWeightedScore (checked under SpecWeighted).      *)
(***************************************************************************)
WeightedReturned == phase = "done" /\ called = "calculateWeightedScore"

\* confidence * recency of the n-th claim, the recency halving per half-life
StatedWeight(n) == RDiv(claims[n].confidence, Num(2 ^ (Now - claims[n].createdAt)))

RECURSIVE StatedWeightSum(_)
StatedWeightSum(n) ==
    IF n = 0 THEN Num(0) ELSE RAdd(StatedWeightSum(n - 1), StatedWeight(n))

RECURSIVE StatedScoreSum(_)
StatedScoreSum(n) ==
    IF n = 0 THEN Num(0)
    ELSE RAdd(StatedScoreSum(n - 1), RMul(claims[n].score, StatedWeight(n)))

SameScore == \A i \in 1..Len(claims) : claims[i].score = claims[1].score

\* C12: calculateWeightedScore returns sum(score * confidence * recency) /
\* sum(confidence * recency), 0 on an empty list, and s when all its claims carry
\* the same score s.
C12_WeightedAggregate ==
    WeightedReturned =>
        /\ claims = <<>> => result = Num(0)
        /\ claims # <<>> =>
               RMul(result, StatedWeightSum(Len(claims))) = StatedScoreSum(Len(claims))
        /\ (claims # <<>> /\ SameScore) => result = claims[1].score

C12_Witness ==
    /\ WeightedReturned
    /\ Len(claims) = 2
    /\ claims[1].score = Num(-1) /\ claims[1].confidence = Num(1)
    /\ claims[1].createdAt = Now
    /\ claims[2].score = Rat(1, 5) /\ claims[2].confidence = Rat(4, 5)
    /\ claims[2].createdAt = 0
    /\ result = Rat(-23, 35)

(***************************************************************************)
(* The confidence level of calculateESGMetrics (checked under SpecESG).    *)
(***************************************************************************)
\* the positions of the claims with a score and a confidence > 0
ValidPositions ==
    {i \in 1..Len(claims) :
        /\ IsNumber(claims[i].score)
        /\ IsNumber(claims[i].confidence)
        /\ claims[i].confidence[1] > 0}

StatedRecency(n) == Rat(1, 2 ^ (Now - claims[n].createdAt))

RECURSIVE RecencySum(_)
RecencySum(n) ==
    IF n = 0 THEN Num(0)
    ELSE RAdd(RecencySum(n - 1),
              IF n \in ValidPositions THEN StatedRecency(n) ELSE Num(0))

RECURSIVE ConfidenceRecencySum(_)
ConfidenceRecencySum(n) ==
    IF n = 0 THEN Num(0)
    ELSE RAdd(ConfidenceRecencySum(n - 1),
              IF n \in ValidPositions
              THEN RMul(claims[n].confidence, StatedRecency(n)) ELSE Num(0))

\* C13: confidenceLevel is sum(confidence * recency) / sum(recency) over the
\* valid claims, and lies between their smallest and largest confidence.
C13_ConfidenceIsRecencyWeightedMean ==
    ComputedPath =>
        /\ RMul(result.confidenceLevel, RecencySum(Len(claims)))
               = ConfidenceRecencySum(Len(claims))
        /\ \E i \in ValidPositions : RLe(claims[i].confidence, result.confidenceLevel)
        /\ \E i \in ValidPositions : RLe(result.confidenceLevel, claims[i].confidence)

C13_Witness ==
    /\ ComputedPath
    /\ Len(claims) = 2
    /\ claims[1].confidence = Num(1) /\ claims[1].createdAt = Now
    /\ claims[2].confidence = Rat(4, 5) /\ claims[2].createdAt = 0
    /\ result.confidenceLevel = Rat(14, 15)

\* the claims that have a score, with or without a confidence value
ScoredClaims == SelectSeq(claims, hasScore)

\* C14: a claim with a score but no confidence value takes part in its pillar's
\* aggregate and in the confidence level, weighted with confidence 0.5.
C14_AbsentConfidenceCountsAsHalf ==
    ComputedPath =>
        /\ \A p \in Pillars :
               PillarPercentage(result, p)
                   = normalizeScoreToPercentage(calculatePillarScore(ScoredClaims, p))
        /\ result.confidenceLevel = calculateWeightedConfidence(ScoredClaims)

(***************************************************************************)
(* The pillar classification of calculateESGMetrics (checked under         *)
(* SpecPillar).                                                            *)
(***************************************************************************)
\* the pillars with a keyword that is a substring of the lower-cased label
StatedPillars(label) ==
    CASE label = <<"Climate", " ", "risk">>  -> {"environmental", "governance"}
      [] label = <<"On", "board", "ing">>    -> {"governance"}
      [] label = <<"Human", " ", "Rights">>  -> {"social"}
      [] label = <<"ESG", "-", "climate">>   -> {"environmental"}
      [] OTHER                               -> {}

\* the labels that contain 'esg' or 'overall'
StatedGeneral(label) == label \in {<<"ESG", "-", "climate">>, <<"ESG", "Overall">>}

ValidClaims == SelectSeq(claims, isValidClaim)

MatchingClaims(p) == SelectSeq(ValidClaims, LAMBDA c : p \in StatedPillars(c.aspect))

GeneralClaims == SelectSeq(ValidClaims, LAMBDA c : StatedGeneral(c.aspect))

\* C15: a pillar no valid claim matches gets the weighted aggregate of the valid
\* general/overall claims; a pillar some valid claim matches gets the aggregate
\* of the matching claims only.
C15_FallbackToGeneralClaims ==
    ComputedPath =>
        \A p \in Pillars :
            PillarPercentage(result, p) =
                normalizeScoreToPercentage(
                    IF MatchingClaims(p) = <<>>
                    THEN calculateWeightedScore(GeneralClaims)
                    ELSE calculateWeightedScore(MatchingClaims(p)))

C15_Witness ==
    /\ ComputedPath
    /\ Len(claims) = 2
    /\ claims[1].aspect = <<"On", "board", "ing">> /\ claims[1].score = Num(1)
    /\ claims[2].aspect = <<"ESG", "Overall">> /\ claims[2].score = Num(-1)
    /\ result.governanceScore = Num(100)
    /\ result.socialScore = Num(0)
    /\ result.environmentalScore = Num(0)

\* C16: a claim belongs to a pillar exactly when its lower-cased label contains
\* one of the pillar's keywords; a label matching several pillars counts in each
\* of them, and a claim without label or without matching keyword in none.
C16_SubstringClassification ==
    ComputedPath =>
        /\ \A i \in 1..Len(claims) : \A p \in Pillars :
               isClaimInPillar(claims[i], p) <=> p \in StatedPillars(claims[i].aspect)
        /\ Len(claims) = 1 =>
               \A p \in Pillars :
                   PillarPercentage(result, p) =
                       IF p \in StatedPillars(claims[1].aspect) \/ StatedGeneral(claims[1].aspect)
                       THEN normalizeScoreToPercentage(claims[1].score)
                       ELSE Num(50)

C16_Witness ==
    /\ ComputedPath
    /\ Len(claims) = 1
    /\ claims[1].aspect = <<"Climate", " ", "risk">>
    /\ claims[1].score = Num(1)
    /\ result.environmentalScore = Num(100)
    /\ result.governanceScore = Num(100)
    /\ result.socialScore = Num(50)

(***************************************************************************)
(* Empty and missing claim collections (checked under SpecEntry).          *)
(***************************************************************************)
EmptyOrMissing == collection # "array" \/ claims = <<>>

\* C17: on an empty and on a missing (null or undefined) collection both entry
\* points return without throwing: calculateESGMetrics the default metrics,
\* calculateValidationMetrics zero counts and an empty history.
C17_EmptyOrMissingCollection ==
    (phase # "input" /\ EmptyOrMissing) =>
        /\ phase = "done"
        /\ called = "calculateESGMetrics" =>
               /\ result.overallPercentage = Num(0)
               /\ result.overallStars = 0
               /\ result.overallGrade = "N/A"
               /\ result.industryPercentile = 50
               /\ result.totalValidations = 0
        /\ called = "calculateValidationMetrics" =>
               /\ result.totalValidations = 0
               /\ result.endorsements = 0
               /\ result.rejections = 0
               /\ result.averageRating = Num(0)
               /\ result.validationHistory = <<>>

(***************************************************************************)
(* The validation step of calculateESGMetrics (checked under               *)
(* SpecUnchecked).                                                         *)
(***************************************************************************)
\* C18: when validateMetrics finds a violation in the composed metrics,
\* calculateESGMetrics emits the diagnostics and returns the metrics as composed
\* before validation, every field unchanged.
C18_ValidationOnlyWarns ==
    [][(CalculateESGMetrics /\ diagnostics' # <<>>) =>
           result' = composeMetrics(claims, SelectSeq(claims, isValidClaim), rng)]_vars

C18_Witness ==
    /\ ComputedPath
    /\ diagnostics # <<>>
    /\ \E i \in 1..Len(diagnostics) : diagnostics[i] = "overall score mismatch"
    /\ result.overallPercentage = Num(100)
    /\ result.overallGrade = "A+"

(***************************************************************************)
(* Properties of validateMetrics (checked under SpecValidate).             *)
(***************************************************************************)
ValidateReturned == phase = "done" /\ called = "validateMetrics"

\* C19: validateMetrics returns false for every metrics value with
\* endorsements + rejections > totalValidations, also when neither count alone
\* exceeds totalValidations.
C19_RejectsCountsAboveTotal ==
    (ValidateReturned
        /\ candidate.endorsements + candidate.rejections > candidate.totalValidations)
    => result = FALSE

(***************************************************************************)
(* The validation history (checked under SpecVal).                         *)
(***************************************************************************)
RatedPositions == {i \in 1..Len(claims) : Positive(claims[i].stars)}

EntriesWithId(id) ==
    {k \in 1..Len(result.validationHistory) : result.validationHistory[k].id = id}

HasOneEntry(id, timestamp) ==
    /\ Cardinality(EntriesWithId(id)) = 1
    /\ \A k \in EntriesWithId(id) : result.validationHistory[k].timestamp = timestamp

\* C20: for every claim collection the validationHistory holds exactly one entry
\* per claim with stars > 0 and exactly one per validator sub-record, whatever
\* the validator's rating, each with the parent claim's creation timestamp.
C20_HistoryEntryPerRecord ==
    ValidationReturned =>
        /\ Len(result.validationHistory)
               = Cardinality(RatedPositions) + Cardinality(ValidatorRecords)
        /\ \A i \in RatedPositions : HasOneEntry(<<"claim", i>>, claims[i].createdAt)
        /\ \A x \in ValidatorRecords :
               HasOneEntry(<<"validator", x[1], x[2] - 1>>, claims[x[1]].createdAt)

\* C21: the validationHistory returned by calculateValidationMetrics is ordered
\* newest first: no entry is followed by one with a greater timestamp.
C21_HistoryNewestFirst ==
    ValidationReturned =>
        \A k \in 1..(Len(result.validationHistory) - 1) :
            result.validationHistory[k].timestamp
                >= result.validationHistory[k + 1].timestamp

\* a collection listed oldest first comes back with its newest entry in front
C21_Witness ==
    /\ ValidationReturned
    /\ Len(claims) >= 2
    /\ claims[1].createdAt < claims[2].createdAt
    /\ Len(result.validationHistory) >= 2
    /\ result.validationHistory[1].timestamp = claims[2].createdAt
    /\ result.validationHistory[Len(result.validationHistory)].timestamp
           = claims[1].createdAt

\* C22: two calls of calculateValidationMetrics, or of calculateESGMetrics, on
\* the same claim collection at the same instant return results equal in every
\* field, including every field of every validationHistory entry.
C22_RepeatedCallsAgree == phase = "repeated" => result = earlier

CompaniesReturned == phase = "done" /\ called = "fetchCompanies"

\* C24: for every company card built from the engine's output the grade starts
\* with 'A' exactly when the card's percentage is at least 85, so the Dashboard's
\* A-grade count equals validateAGradeClassification's expectedCount and its
\* incorrect list is empty.
C24_AGradeFromEightyFive ==
    CompaniesReturned =>
        /\ \A k \in 1..Len(result) :
               startsWithA(result[k].grade) <=> RLe(Num(85), cardPercentage(result[k]))
        /\ highPerformers(result) = validateAGradeClassification(result).expectedCount
        /\ validateAGradeClassification(result).incorrect = <<>>

BreakdownReturned == phase = "done" /\ called = "getCalculationBreakdown"

\* C25: for every claim collection, getCalculationBreakdown's finalPercentage,
\* starRating and grade equal the overallPercentage, overallStars and
\* overallGrade that calculateESGMetrics returns for the same collection,
\* also when no claim has both a score and a confidence > 0.
C25_BreakdownMatchesMetrics ==
    BreakdownReturned =>
        /\ result.overallCalculation.finalPercentage
               = calculateESGMetrics(claims, rng).overallPercentage
        /\ result.overallCalculation.starRating
               = calculateESGMetrics(claims, rng).overallStars
        /\ result.overallCalculation.grade
               = calculateESGMetrics(claims, rng).overallGrade

ValidationFields ==
    {"totalValidations", "endorsements", "rejections", "averageRating",
     "endorsementRate", "consensusPercentage"}

\* C26: for every claim collection the totalValidations, endorsements,
\* rejections, averageRating, endorsementRate and consensusPercentage returned
\* by calculateESGMetrics equal those calculateValidationMetrics returns for the
\* same collection, also when the collection carries ratings but no valid claim.
C26_ValidationFieldsAgree ==
    MetricsReturned =>
        \A field \in ValidationFields :
            result[field] = calculateValidationMetrics(claims, rng)[field]

\* C27: convertPercentageToStars is monotonic non-decreasing over [0, 100],
\* non-integer percentages between the band edges included: a percentage at
\* least as high never gets fewer stars.
C27_StarsMonotone ==
    StarsReturned =>
        \A q \in Percentages :
            RLe(percentage, q) => result <= convertPercentageToStars(q)

GradeReturned == phase = "done" /\ called = "calculateGrade"

\* C28: for every score in [-1, 1] the grade calculateGrade returns is the grade
\* validateGradeConsistency expects for that score, so the consistency check
\* returns true.
C28_GradeScalesAgree ==
    (GradeReturned /\ RLe(Num(-1), score) /\ RLe(score, Num(1))) =>
        validateGradeConsistency(score, result)

FellBack(k) == k \in 1..Len(fetches) /\ fetches[k].stage = "fellBack"

BothFailed(k) == k \in 1..Len(fetches) /\ fetches[k].stage = "failed"

\* C23: in useESGMetrics.fetchClaims, when the API request fails and the mock
\* fallback succeeds the hook ends (no other fetch having been started) with
\* loading 'success', error null and the mock claims; loading is 'error' only when both the API request and the
\* fallback of a fetch failed, and the stored error is then that fetch's API
\* error, not the fallback's.
C23_FallbackOutcome ==
    hook.name = "useESGMetrics" =>
        /\ (Len(fetches) = 1 /\ FellBack(1)) =>
               /\ hookState.loading = "success"
               /\ hookState.error = Null
               /\ hookState.claims = MockData
        /\ hookState.loading = "error" =>
               \E k \in 1..Len(fetches) :
                   /\ BothFailed(k)
                   /\ hookState.error.message = fetches[k].err.message

\* the API request of the only fetch failed and its fallback delivered the mock data
C23_Witness ==
    /\ hook.name = "useESGMetrics"
    /\ Len(fetches) = 1
    /\ FellBack(1)
    /\ fetches[1].err \in ApiErrors
    /\ hookState.claims = MockData

AllSettled == \A k \in 1..Len(fetches) : settled(fetches[k])

\* what fetch k stores when it is the only one
OutcomeOf(k) ==
    CASE fetches[k].stage = "succeeded" -> [claims |-> ApiData(k), loading |-> "success"]
      [] fetches[k].stage = "fellBack" -> [claims |-> MockData, loading |-> "success"]
      [] OTHER -> [claims |-> hookState.claims, loading |-> "error"]

\* C29: in useClaim and useESGMetrics, when a second fetch is started while an
\* earlier one is in flight, the final claims (claim) and loading state are
\* those of the later-started fetch, in whatever order the requests complete.
C29_LatestFetchWins ==
    (hook.name \in {"useClaim", "useESGMetrics"} /\ Len(fetches) >= 2 /\ AllSettled) =>
        /\ hookState.claims = OutcomeOf(Len(fetches)).claims
        /\ hookState.loading = OutcomeOf(Len(fetches)).loading

\* a poll tick that calls refresh starts a fetch (or, without identifier, stores
\* the missing-identifier error)
TickCallsRefresh == PollTick /\ ~poll.isLoading

\* C30: in useRealTimeESGMetrics a poll tick never calls refresh while the
\* hook's loading state is 'loading', and once the effect's cleanup has run the
\* cleared interval starts no further refresh.
C30_PollRespectsLoading ==
    [][/\ TickCallsRefresh => hookState.loading # "loading"
       /\ poll.interval = "cleared" => fetches' = fetches]_vars

====
